---- MODULE Spec2Model ----
(***************************************************************************)
(* Column codecs of equilia: run-length reduction, statistics-driven       *)
(* format selection, the byte-level encoders and the cursor-driven         *)
(* decoders over the two storage backends.                                 *)
(*                                                                         *)
(* A u64 is held as its eight base-256 digits, most significant first,     *)
(* because the values that decide the width selection (2^32, u64::MAX) do  *)
(* not fit the model checker's integers.  Arithmetic on u64 values is      *)
(* digit arithmetic with carry and borrow.                                 *)
(***************************************************************************)
EXTENDS Integers, Sequences, FiniteSets, TLC

\* ------------------------------------------------------------------ bounds
MaxBools == 4
MaxInts == 3
MaxStrs == 3

\* ------------------------------------------------------- u64 digit values
Byte == 0..255

\* the u64 with the (small) value n: its eight big-endian bytes
U64(n) ==
  <<0, 0, 0, 0, n \div 16777216, (n \div 65536) % 256, (n \div 256) % 256, n % 256>>

\* a u64 below 2^24 read back as a natural number (`as usize`)
Small(d) == d[1] = 0 /\ d[2] = 0 /\ d[3] = 0 /\ d[4] = 0 /\ d[5] = 0
ToNat(d) == 65536 * d[6] + 256 * d[7] + d[8]

\* the order of two digit sequences of one length
LtDigits(a, b) ==
  \E i \in 1..Len(a) : a[i] < b[i] /\ \A j \in 1..(i - 1) : a[j] = b[j]

Lt64(a, b) == LtDigits(a, b)
Le64(a, b) == a = b \/ LtDigits(a, b)
Gt64(a, b) == LtDigits(b, a)

\* borrow taken from digit i by the digits below it in a - b: the lower
\* part of a is below the lower part of b
Borrow(a, b, i) ==
  IF \E k \in (i + 1)..8 : a[k] < b[k] /\ \A j \in (i + 1)..(k - 1) : a[j] = b[j]
  THEN 1 ELSE 0

\* a - b on u64; `under` tells that b > a
Sub64(a, b) ==
  [v |-> [i \in 1..8 |-> (256 + a[i] - b[i] - Borrow(a, b, i)) % 256],
   under |-> LtDigits(a, b)]

\* carry given to digit i by the digits below it in a + b: the lower part
\* of a is above the complement of the lower part of b
Carry(a, b, i) ==
  IF \E k \in (i + 1)..8 :
       a[k] > 255 - b[k] /\ \A j \in (i + 1)..(k - 1) : a[j] = 255 - b[j]
  THEN 1 ELSE 0

\* a + b on u64, modulo 2^64; `over` tells that the sum left 64 bits
Add64(a, b) ==
  [v |-> [i \in 1..8 |-> (a[i] + b[i] + Carry(a, b, i)) % 256],
   over |-> (a[1] + b[1] + Carry(a, b, 1) > 255)]

\* bit k of the byte x
Bit(x, k) == (x \div (2 ^ k)) % 2

\* the exclusive or of two bytes
XorByte(a, b) ==
  LET d(k) == ((Bit(a, k) + Bit(b, k)) % 2) * (2 ^ k)
  IN d(0) + d(1) + d(2) + d(3) + d(4) + d(5) + d(6) + d(7)

Xor64(a, b) == [i \in 1..8 |-> XorByte(a[i], b[i])]

U8_MAX == <<0, 0, 0, 0, 0, 0, 0, 255>>
U16_MAX == <<0, 0, 0, 0, 0, 0, 255, 255>>
U32_MAX == <<0, 0, 0, 0, 255, 255, 255, 255>>
U64_MAX == <<255, 255, 255, 255, 255, 255, 255, 255>>

\* v.try_into() for u8 / u16 / u32: the value when it fits, else an error
FitsU8(v) == Le64(v, U8_MAX)
FitsU16(v) == Le64(v, U16_MAX)
FitsU32(v) == Le64(v, U32_MAX)

\* ------------------------------------------------------------- bit widths
U16_CODE == 253
U32_CODE == 254
U64_CODE == 255

BitWidths == {"IsOne", "U8", "U16", "U32", "U64", "Variable"}

\* the discriminant of a BitWidth (`w as u8`)
IsZeroTag == 16
BitWidthTag(w) ==
  CASE w = "IsOne" -> 0
    [] w = "U8" -> 1
    [] w = "U16" -> 2
    [] w = "U32" -> 4
    [] w = "U64" -> 8
    [] w = "Variable" -> 255
    [] w = "IsZero" -> IsZeroTag

\* BitWidth::new: the width with discriminant v, or "None"
BitWidthNew(v) ==
  IF \E w \in BitWidths \cup {"IsZero"} : BitWidthTag(w) = v
  THEN CHOOSE w \in BitWidths \cup {"IsZero"} : BitWidthTag(w) = v
  ELSE "None"

\* BitWidth::max: the largest representable value
BitWidthMax(w) ==
  CASE w = "IsOne" -> U64(1)
    [] w = "U8" -> U8_MAX
    [] w = "U16" -> U16_MAX
    [] w = "U32" -> U32_MAX
    [] w = "U64" -> U64_MAX
    [] w = "Variable" -> U64_MAX
    [] w = "IsZero" -> U64(0)

\* ---------------------------------------------------------------- storage
\* A storage handle: the backend, the shared immutable bytes and the
\* handle's private offset.  fd is the position of the file descriptor
\* that the clones of a File share, as the handle finds it at a call.
Backends == {"Bytes", "File"}

Storage(backend, bytes) ==
  [backend |-> backend, buf |-> bytes, offset |-> 0, fd |-> 0]

Ok(st, v) == [ok |-> TRUE, st |-> st, v |-> v, err |-> "none"]
Err(st, e) == [ok |-> FALSE, st |-> st, v |-> <<>>, err |-> e]

\* Bytes::seek: the in-memory backend accepts offsets strictly inside the buffer
BytesSeek(st, offset) ==
  IF offset < Len(st.buf) THEN Ok([st EXCEPT !.offset = offset], <<>>)
  ELSE Err(st, "Io")

\* File::seek: the file backend accepts every offset up to the cached length
FileSeek(st, offset) ==
  IF offset <= Len(st.buf) THEN Ok([st EXCEPT !.offset = offset], <<>>)
  ELSE Err(st, "Io")

\* Storage::seek
StorageSeek(st, offset) ==
  IF st.backend = "Bytes" THEN BytesSeek(st, offset) ELSE FileSeek(st, offset)

\* Storage::tell
StorageTell(st) == st.offset

\* a read of n bytes at the descriptor's own position, which moves it
FdReadAtCursor(st, n, offset) ==
  [bytes |-> [i \in 1..n |-> IF st.fd + i <= Len(st.buf) THEN st.buf[st.fd + i] ELSE 0],
   fd |-> st.fd + n]

\* FileExt::read_exact_at on the shared descriptor: n bytes at offset, the
\* descriptor's position left where it was
FdReadAt(st, n, offset) ==
  [bytes |-> SubSeq(st.buf, offset + 1, offset + n), fd |-> st.fd]

\* File::read_exact_at: a positional read that touches no offset
FileReadExactAt(st, n, offset) ==
  LET Got(r) == Ok([st EXCEPT !.fd = r.fd], r.bytes)
  IN IF offset + n > Len(st.buf) THEN Err(st, "Io")
     ELSE Got(FdReadAt(st, n, offset))

\* the positional read of the in-memory backend
BytesReadExactAt(st, n, offset) ==
  IF offset + n > Len(st.buf) THEN Err(st, "Io")
  ELSE Ok(st, SubSeq(st.buf, offset + 1, offset + n))

\* Storage::read_exact_at
ReadExactAt(st, n, offset) ==
  IF st.backend = "Bytes" THEN BytesReadExactAt(st, n, offset)
  ELSE FileReadExactAt(st, n, offset)

\* ReadEncoded::advance: move the offset by size and return the old offset
Advance(st, size) ==
  LET Moved(offset, sk) == IF sk.ok THEN Ok(sk.st, offset) ELSE sk
  IN Moved(StorageTell(st), StorageSeek(st, StorageTell(st) + size))

\* ReadEncoded::read_exact: advance, then read at the old offset
ReadExact(st, n) ==
  LET Filled(adv, rd) == IF rd.ok THEN Ok(rd.st, rd.v) ELSE Err(rd.st, rd.err)
      Advanced(adv) ==
        IF ~adv.ok THEN adv ELSE Filled(adv, ReadExactAt(adv.st, n, adv.v))
  IN Advanced(Advance(st, n))

\* u64::from_be_bytes of k bytes, widened to u64
Widen(bytes) == [i \in 1..8 |-> IF i <= 8 - Len(bytes) THEN 0 ELSE bytes[i - (8 - Len(bytes))]]

ReadFixed(st, k) ==
  LET Widened(r) == IF r.ok THEN Ok(r.st, Widen(r.v)) ELSE r
  IN Widened(ReadExact(st, k))

read_u8(st) == ReadFixed(st, 1)
read_u16(st) == ReadFixed(st, 2)
read_u32(st) == ReadFixed(st, 4)
read_u64(st) == ReadFixed(st, 8)

\* ReadEncoded::read_usigned: one byte, or a sentinel and 2, 4 or 8 bytes
read_usigned(st) ==
  LET First(b) ==
        IF ~b.ok THEN b
        ELSE IF b.v[8] = U16_CODE THEN read_u16(b.st)
        ELSE IF b.v[8] = U32_CODE THEN read_u32(b.st)
        ELSE IF b.v[8] = U64_CODE THEN read_u64(b.st)
        ELSE b
  IN First(read_u8(st))

\* ReadEncoded::read_bitwidth
read_bitwidth(st, w) ==
  CASE w = "IsOne" -> Ok(st, U64(1))
    [] w = "IsZero" -> Ok(st, U64(0))
    [] w = "U8" -> read_u8(st)
    [] w = "U16" -> read_u16(st)
    [] w = "U32" -> read_u32(st)
    [] w = "U64" -> read_u64(st)
    [] w = "Variable" -> read_usigned(st)

\* --------------------------------------------------------------- writers
\* A write appends to the sink; the results carry the bytes to append.
WOk(bytes) == [ok |-> TRUE, bytes |-> bytes]
WErr == [ok |-> FALSE, bytes |-> <<>>]

\* v as u8 / u16 / u32 / u64 in big-endian bytes (`as` truncates)
write_u8(v) == SubSeq(v, 8, 8)
write_u16(v) == SubSeq(v, 7, 8)
write_u32(v) == SubSeq(v, 5, 8)
write_u64(v) == v

\* WriteEncoded::write_unsigned
write_unsigned(v) ==
  IF Lt64(v, U64(U16_CODE)) THEN write_u8(v)
  ELSE IF Lt64(v, U16_MAX) THEN <<U16_CODE>> \o write_u16(v)
  ELSE IF Lt64(v, U32_MAX) THEN <<U32_CODE>> \o write_u32(v)
  ELSE <<U64_CODE>> \o write_u64(v)

\* WriteEncoded::write_bitwidth
write_bitwidth(w, v) ==
  CASE w = "IsOne" -> IF v # U64(1) THEN WErr ELSE WOk(<<>>)
    [] w = "IsZero" -> IF v # U64(0) THEN WErr ELSE WOk(<<>>)
    [] w = "U8" -> IF FitsU8(v) THEN WOk(write_u8(v)) ELSE WErr
    [] w = "U16" -> IF FitsU16(v) THEN WOk(write_u16(v)) ELSE WErr
    [] w = "U32" -> IF FitsU32(v) THEN WOk(write_u32(v)) ELSE WErr
    [] w = "U64" -> WOk(write_u64(v))
    [] w = "Variable" -> WOk(write_unsigned(v))

\* --------------------------------------------- the slice-based encoding
\* encoding::write_u64: the bytes pushed onto buf
encoding_write_u64(v) ==
  IF Lt64(v, U64(U16_CODE)) THEN SubSeq(v, 8, 8)
  ELSE IF Lt64(v, U16_MAX) THEN <<U16_CODE>> \o SubSeq(v, 7, 8)
  ELSE IF Lt64(v, U32_MAX) THEN <<U32_CODE>> \o SubSeq(v, 5, 8)
  ELSE <<U64_CODE>> \o v

\* the result of encoding::read_u64: Ok((v, rest)) or Err(())
SliceOk(v, rest) == [ok |-> TRUE, v |-> v, rest |-> rest]
SliceErr == [ok |-> FALSE, v |-> U64(0), rest |-> <<>>]

\* encoding::try_split::<N>
try_split(buf, n) ==
  IF Len(buf) < n THEN [ok |-> FALSE, array |-> <<>>, rest |-> <<>>]
  ELSE [ok |-> TRUE, array |-> SubSeq(buf, 1, n), rest |-> SubSeq(buf, n + 1, Len(buf))]

\* encoding::read_u64
encoding_read_u64(buf) ==
  LET Split(sp) == IF sp.ok THEN SliceOk(Widen(sp.array), sp.rest) ELSE SliceErr
      Coded(b, rest) ==
        IF b = U16_CODE THEN Split(try_split(rest, 2))
        ELSE IF b = U32_CODE THEN Split(try_split(rest, 4))
        ELSE IF b = U64_CODE THEN Split(try_split(rest, 8))
        ELSE SliceOk(U64(b), rest)
  IN IF buf = <<>> THEN SliceErr ELSE Coded(buf[1], Tail(buf))

\* ------------------------------------------------------ run-length reduce
\* run_length_encode: the loop over elems with its `previous` and `count`
RECURSIVE RleLoop(_, _, _, _)
RleLoop(rest, previous, count, out) ==
  IF rest = <<>>
  THEN IF count > 0 THEN Append(out, <<previous, count>>) ELSE out
  ELSE IF Head(rest) = previous
       THEN RleLoop(Tail(rest), previous, count + 1, out)
       ELSE RleLoop(Tail(rest), Head(rest), 1, Append(out, <<previous, count>>))

run_length_encode(elems) ==
  IF elems = <<>> THEN <<>> ELSE RleLoop(elems, elems[1], 0, <<>>)

RECURSIVE SumRuns(_)
SumRuns(input) == IF input = <<>> THEN 0 ELSE input[1][2] + SumRuns(Tail(input))

\* the length of the first run taken for the longest
LongestRunFirst(input) == IF input = <<>> THEN 0 ELSE input[1][2]

\* the longest run, 0 for no runs (`max().unwrap_or_default()`)
RECURSIVE LongestRun(_)
LongestRun(input) ==
  LET Longer(n, r) == IF n > r THEN n ELSE r
  IN IF input = <<>> THEN 0 ELSE Longer(input[1][2], LongestRun(Tail(input)))

\* ----------------------------------------------------------- magic numbers
\* u64::from_be_bytes(*b"__bool__"), b"00u64gen", b"000bytes"
BOOL_MAGIC == <<95, 95, 98, 111, 111, 108, 95, 95>>
U64_GENERIC_MAGIC == <<48, 48, 117, 54, 52, 103, 101, 110>>
BYTES_GENERIC_MAGIC == <<48, 48, 48, 98, 121, 116, 101, 115>>

\* ------------------------------------------------------ integer formats
\* u64_generic::Format::to_bytes: value width, run-length width, six zeros
U64FormatToBytes(f) ==
  <<BitWidthTag(f.value), BitWidthTag(f.runlength), 0, 0, 0, 0, 0, 0>>

\* u64_generic::Format::from_bytes
U64FormatFromBytes(F) ==
  LET Format(value, runlength) ==
        IF value = "None" \/ runlength = "None"
        THEN [ok |-> FALSE, value |-> "None", runlength |-> "None"]
        ELSE [ok |-> TRUE, value |-> value, runlength |-> runlength]
  IN Format(BitWidthNew(F[1]), BitWidthNew(F[2]))

VariableVariable == U64FormatToBytes([value |-> "Variable", runlength |-> "Variable"])
VariableOne == U64FormatToBytes([value |-> "Variable", runlength |-> "IsOne"])
U32Variable == U64FormatToBytes([value |-> "U32", runlength |-> "Variable"])
U16Variable == U64FormatToBytes([value |-> "U16", runlength |-> "Variable"])
U32One == U64FormatToBytes([value |-> "U32", runlength |-> "IsOne"])
U16One == U64FormatToBytes([value |-> "U16", runlength |-> "IsOne"])
U8Variable == U64FormatToBytes([value |-> "U8", runlength |-> "Variable"])
U8One == U64FormatToBytes([value |-> "U8", runlength |-> "IsOne"])

U64Formats ==
  {VariableVariable, VariableOne, U32Variable, U32One,
   U16Variable, U16One, U8Variable, U8One}

\* U64::<F>::MAGIC
U64Magic(F) == Xor64(F, U64_GENERIC_MAGIC)

\* --------------------------------------------------- byte-string formats
\* bytes::Format::to_bytes: length, run-length and prefix widths, five zeros
BytesFormatToBytes(f) ==
  <<BitWidthTag(f.length), BitWidthTag(f.runlength), BitWidthTag(f.prefix),
    0, 0, 0, 0, 0>>

\* bytes::Format::from_bytes
BytesFormatFromBytes(F) ==
  LET Format(length, runlength, prefix) ==
        IF length = "None" \/ runlength = "None" \/ prefix = "None"
        THEN [ok |-> FALSE, length |-> "None", prefix |-> "None", runlength |-> "None"]
        ELSE [ok |-> TRUE, length |-> length, prefix |-> prefix, runlength |-> runlength]
  IN Format(BitWidthNew(F[1]), BitWidthNew(F[2]), BitWidthNew(F[3]))

VVV == BytesFormatToBytes([length |-> "Variable", runlength |-> "Variable", prefix |-> "Variable"])
FVV == BytesFormatToBytes([length |-> "IsZero", runlength |-> "Variable", prefix |-> "Variable"])
F1V == BytesFormatToBytes([length |-> "IsZero", runlength |-> "IsOne", prefix |-> "Variable"])
V10 == BytesFormatToBytes([length |-> "Variable", runlength |-> "IsOne", prefix |-> "IsZero"])

BytesFormats == {VVV, FVV, F1V, V10}

\* a magic of the byte-string family that leaves the format out
BytesMagicBare(F) == BYTES_GENERIC_MAGIC

\* Bytes::<F>::MAGIC = F + BYTES_GENERIC_MAGIC, the sum taken modulo 2^64
BytesMagic(F) == Add64(F, BYTES_GENERIC_MAGIC).v

\* -------------------------------------------------------------- encoders
\* An encoder's result: Ok or OutOfBounds, and the bytes it put in the sink.
EncOk(bytes) == [res |-> "Ok", bytes |-> bytes]
EncOut(bytes) == [res |-> "OutOfBounds", bytes |-> bytes]

\* BoolColumn::encode, the loop over the runs
RECURSIVE BoolEncodeRuns(_)
BoolEncodeRuns(input) ==
  IF input = <<>> THEN <<>>
  ELSE write_unsigned(U64(input[1][2])) \o BoolEncodeRuns(Tail(input))

\* an encode that writes the magic before it looks at the input
BoolEncodeMagicFirst(input) ==
  EncOk(write_u64(BOOL_MAGIC) \o BoolEncodeRuns(input))

\* BoolColumn::encode
BoolEncode(input) ==
  IF input = <<>> THEN EncOk(<<>>)
  ELSE EncOk(write_u64(BOOL_MAGIC)
             \o write_unsigned(U64(SumRuns(input)))
             \o write_unsigned(U64(Len(input)))
             \o write_u8(U64(IF ~input[1][1] THEN 1 ELSE 0))
             \o BoolEncodeRuns(input))

\* the smallest and the largest chunk value of an integer column
\* a statistics pass that takes the first chunk's value for the smallest
MinValueFirst(input) == input[1][1]

RECURSIVE MinValue(_)
MinValue(input) ==
  LET Smaller(v, m) == IF Lt64(v, m) THEN v ELSE m
  IN IF Len(input) = 1 THEN input[1][1]
     ELSE Smaller(input[1][1], MinValue(Tail(input)))

RECURSIVE MaxValue(_)
MaxValue(input) ==
  LET Larger(v, m) == IF Gt64(v, m) THEN v ELSE m
  IN IF Len(input) = 1 THEN input[1][1]
     ELSE Larger(input[1][1], MaxValue(Tail(input)))

\* U64::encode, the loop over the runs: run length, then value - min
RECURSIVE U64EncodeRuns(_, _, _, _)
U64EncodeRuns(format, min, rest, out) ==
  IF rest = <<>> THEN EncOk(out)
  ELSE LET Run(num, val) ==
             IF ~num.ok THEN EncOut(out)
             ELSE IF ~val.ok THEN EncOut(out \o num.bytes)
             ELSE U64EncodeRuns(format, min, Tail(rest), out \o num.bytes \o val.bytes)
       IN Run(write_bitwidth(format.runlength, U64(rest[1][2])),
              write_bitwidth(format.value, Sub64(rest[1][1], min).v))

\* U64::<F>::encode
U64Encode(F, input) ==
  LET Body(format, head, min, max) ==
        IF Gt64(Sub64(max, min).v, BitWidthMax(format.value))
        THEN EncOut(head)
        ELSE U64EncodeRuns(format, min, input,
                           head \o write_u64(min) \o write_u64(max))
      Header(format) ==
        IF ~format.ok THEN EncOut(<<>>)
        ELSE IF input = <<>> THEN EncOk(<<>>)
        ELSE Body(format,
                  write_u64(Xor64(U64_GENERIC_MAGIC, F))
                  \o write_u64(U64(SumRuns(input)))
                  \o write_u64(U64(Len(input))),
                  MinValue(input), MaxValue(input))
  IN Header(U64FormatFromBytes(F))

\* the order of Vec<u8>: lexicographic, a proper prefix comes first
RECURSIVE LtBytes(_, _)
LtBytes(a, b) ==
  IF b = <<>> THEN FALSE
  ELSE IF a = <<>> THEN TRUE
  ELSE IF Head(a) # Head(b) THEN Head(a) < Head(b)
  ELSE LtBytes(Tail(a), Tail(b))

\* bytes::prefix: whole 128-byte blocks first, then byte by byte
RECURSIVE EqualBlocks(_, _, _)
EqualBlocks(xs, ys, k) ==
  IF 128 * (k + 1) <= Len(xs) /\ 128 * (k + 1) <= Len(ys)
     /\ SubSeq(xs, 128 * k + 1, 128 * (k + 1)) = SubSeq(ys, 128 * k + 1, 128 * (k + 1))
  THEN EqualBlocks(xs, ys, k + 1)
  ELSE k

RECURSIVE EqualBytes(_, _)
EqualBytes(xs, ys) ==
  IF xs = <<>> \/ ys = <<>> THEN 0
  ELSE IF Head(xs) # Head(ys) THEN 0
  ELSE 1 + EqualBytes(Tail(xs), Tail(ys))

prefix(xs, ys) ==
  LET Rest(off) ==
        off + EqualBytes(SubSeq(xs, off + 1, Len(xs)), SubSeq(ys, off + 1, Len(ys)))
  IN Rest(128 * EqualBlocks(xs, ys, 0))

\* Bytes::encode, the statistics loop: min starts at the first value, max
\* at the empty string, min_l at u64::MAX and max_l at 0
RECURSIVE BytesStats(_, _)
BytesStats(rest, acc) ==
  IF rest = <<>> THEN acc
  ELSE LET Seen(v, l) ==
             BytesStats(Tail(rest),
               [min |-> IF LtBytes(v, acc.min) THEN v ELSE acc.min,
                max |-> IF LtBytes(acc.max, v) THEN v ELSE acc.max,
                max_l |-> IF Gt64(l, acc.max_l) THEN l ELSE acc.max_l,
                min_l |-> IF Lt64(l, acc.min_l) THEN l ELSE acc.min_l])
       IN Seen(rest[1][1], U64(Len(rest[1][1])))

\* Bytes::encode, the loop over the runs: run length, length - min_l, the
\* capped count of bytes shared with the previous value, the other bytes
RECURSIVE BytesEncodeRuns(_, _, _, _, _)
BytesEncodeRuns(format, min_l, prev, rest, out) ==
  IF rest = <<>> THEN EncOk(out)
  ELSE LET Run(v, num, len, capped, pre) ==
             IF ~num.ok THEN EncOut(out)
             ELSE IF ~len.ok THEN EncOut(out \o num.bytes)
             ELSE IF ~pre.ok THEN EncOut(out \o num.bytes \o len.bytes)
             ELSE BytesEncodeRuns(format, min_l, v, Tail(rest),
                    out \o num.bytes \o len.bytes \o pre.bytes
                        \o SubSeq(v, ToNat(capped) + 1, Len(v)))
           Capped(v, capped) ==
             Run(v, write_bitwidth(format.runlength, U64(rest[1][2])),
                 write_bitwidth(format.length, Sub64(U64(Len(v)), min_l).v),
                 capped, write_bitwidth(format.prefix, capped))
           Shared(v, p, pmax) == Capped(v, IF Lt64(p, pmax) THEN p ELSE pmax)
       IN Shared(rest[1][1], U64(prefix(prev, rest[1][1])),
                 BitWidthMax(format.prefix))

\* Bytes::<F>::encode
BytesEncode(F, input) ==
  LET Bounds(format, st, head, head2, lmin, lmax) ==
        IF Gt64(Sub64(st.max_l, st.min_l).v, BitWidthMax(format.length))
        THEN EncOut(head)
        ELSE IF ~lmin.ok THEN EncOut(head2)
        ELSE IF ~lmax.ok THEN EncOut(head2 \o lmin.bytes \o st.min)
        ELSE BytesEncodeRuns(format, st.min_l, <<>>, input,
               head2 \o lmin.bytes \o st.min \o lmax.bytes \o st.max)
      Body(format, st, head) ==
        Bounds(format, st, head, head \o write_u64(st.min_l),
               write_bitwidth(format.length, Sub64(U64(Len(st.min)), st.min_l).v),
               write_bitwidth(format.length, Sub64(U64(Len(st.max)), st.min_l).v))
      Header(format) ==
        IF ~format.ok THEN EncOut(<<>>)
        ELSE IF input = <<>> THEN EncOk(<<>>)
        ELSE Body(format,
                  BytesStats(input, [min |-> input[1][1], max |-> <<>>,
                                     min_l |-> U64_MAX, max_l |-> U64(0)]),
                  write_u64(BytesMagic(F))
                  \o write_u64(U64(SumRuns(input)))
                  \o write_u64(U64(Len(input))))
  IN Header(BytesFormatFromBytes(F))

\* ----------------------------------------------------- format selection
\* the largest and smallest element of a slice of u64 (0 when empty)
RECURSIVE MaxOf(_)
MaxOf(vals) ==
  IF vals = <<>> THEN U64(0)
  ELSE LET Larger(v, m) == IF Gt64(v, m) THEN v ELSE m
       IN Larger(vals[1], MaxOf(Tail(vals)))

RECURSIVE MinOf(_)
MinOf(vals) ==
  IF vals = <<>> THEN U64(0)
  ELSE IF Len(vals) = 1 THEN vals[1]
  ELSE LET Smaller(v, m) == IF Lt64(v, m) THEN v ELSE m
       IN Smaller(vals[1], MinOf(Tail(vals)))

\* a choice of the format that takes one byte for every value whatever
\* max - min is
SelectU64Byte(vals) ==
  LET Select(longest_run) == IF longest_run < 2 THEN U8One ELSE U8Variable
  IN Select(LongestRun(run_length_encode(vals)))

\* a choice of the format that moves to the next width when max - min
\* reaches the largest value of a width
SelectU64AtLeast(vals) ==
  LET Select(gap, longest_run) ==
        IF ~Lt64(gap, U32_MAX)
        THEN (IF longest_run < 2 THEN VariableOne ELSE VariableVariable)
        ELSE IF ~Lt64(gap, U16_MAX)
        THEN (IF longest_run < 2 THEN U32One ELSE U32Variable)
        ELSE IF ~Lt64(gap, U8_MAX)
        THEN (IF longest_run < 2 THEN U16One ELSE U16Variable)
        ELSE (IF longest_run < 2 THEN U8One ELSE U8Variable)
  IN Select(Sub64(MaxOf(vals), MinOf(vals)).v, LongestRun(run_length_encode(vals)))

\* RawColumn::write_u64, the choice of the format from max - min and the
\* longest run
SelectU64(vals) ==
  LET Select(gap, longest_run) ==
        IF Gt64(gap, U32_MAX)
        THEN (IF longest_run < 2 THEN VariableOne ELSE VariableVariable)
        ELSE IF Gt64(gap, U16_MAX)
        THEN (IF longest_run < 2 THEN U32One ELSE U32Variable)
        ELSE IF Gt64(gap, U8_MAX)
        THEN (IF longest_run < 2 THEN U16One ELSE U16Variable)
        ELSE (IF longest_run < 2 THEN U8One ELSE U8Variable)
  IN Select(Sub64(MaxOf(vals), MinOf(vals)).v, LongestRun(run_length_encode(vals)))

\* RawColumn::write_u64
RawColumn_write_u64(vals) == U64Encode(SelectU64(vals), run_length_encode(vals))

\* the lengths of a slice of byte strings
Lengths(vals) == {Len(vals[i]) : i \in 1..Len(vals)}

\* RawColumn::write_bytes, the choice of the format: mx == mn compares the
\* largest and the smallest length (both None for an empty slice)
SelectBytes(vals) ==
  LET Select(longest_run) ==
        IF Cardinality(Lengths(vals)) <= 1
        THEN (IF longest_run = 1 THEN F1V ELSE FVV)
        ELSE (IF longest_run = 1 THEN V10 ELSE VVV)
  IN Select(LongestRun(run_length_encode(vals)))

\* RawColumn::write_bytes
RawColumn_write_bytes(vals) == BytesEncode(SelectBytes(vals), run_length_encode(vals))

\* RawColumn::write_bools
RawColumn_write_bools(bools) == BoolEncode(run_length_encode(bools))

\* -------------------------------------------------------------- decoders
\* A column handle.  codec is "Bool", "U64" or "Bytes"; F is the format
\* word of the generic codecs.  The fields a codec does not have keep
\* their initial values.
NoFormat == <<0, 0, 0, 0, 0, 0, 0, 0>>

Handle(codec, F, storage, n_rows, n_chunks, last, l_min, v_min, v_max) ==
  [codec |-> codec, F |-> F, storage |-> storage, current_row |-> U64(0),
   n_rows |-> n_rows, n_chunks |-> n_chunks, last |-> last,
   previous |-> <<>>, l_min |-> l_min, v_min |-> v_min, v_max |-> v_max]

NoHandle == Handle("None", NoFormat, Storage("Bytes", <<>>), U64(0), U64(0),
                   FALSE, U64(0), <<>>, <<>>)

\* the result of open: a handle, or Io / BadMagic(m) / OutOfBounds
Opened(h) == [ok |-> TRUE, h |-> h, err |-> "none", magic |-> NoFormat]
OpenErr(e) == [ok |-> FALSE, h |-> NoHandle, err |-> e, magic |-> NoFormat]
BadMagic(m) == [ok |-> FALSE, h |-> NoHandle, err |-> "BadMagic", magic |-> m]

\* BoolColumn::open
BoolOpen(storage) ==
  LET GotLast(n_rows, n_chunks, last) ==
        IF ~last.ok THEN OpenErr(last.err)
        ELSE Opened(Handle("Bool", NoFormat, last.st, n_rows.v, n_chunks.v,
                           last.v = U64(1), U64(0), <<>>, <<>>))
      GotChunks(n_rows, n_chunks) ==
        IF ~n_chunks.ok THEN OpenErr(n_chunks.err)
        ELSE GotLast(n_rows, n_chunks, read_u8(n_chunks.st))
      GotRows(n_rows) ==
        IF ~n_rows.ok THEN OpenErr(n_rows.err)
        ELSE GotChunks(n_rows, read_usigned(n_rows.st))
      GotMagic(magic) ==
        IF ~magic.ok THEN OpenErr(magic.err)
        ELSE IF magic.v # BOOL_MAGIC THEN BadMagic(magic.v)
        ELSE GotRows(read_usigned(magic.st))
  IN GotMagic(read_u64(storage))

\* U64::<F>::open
U64Open(F, storage) ==
  LET GotMax(n_rows, n_chunks, v_min, v_max) ==
        IF ~v_max.ok THEN OpenErr(v_max.err)
        ELSE Opened(Handle("U64", F, v_max.st, n_rows.v, n_chunks.v, FALSE,
                           U64(0), v_min.v, v_max.v))
      GotMin(n_rows, n_chunks, v_min) ==
        IF ~v_min.ok THEN OpenErr(v_min.err)
        ELSE GotMax(n_rows, n_chunks, v_min, read_u64(v_min.st))
      GotChunks(n_rows, n_chunks) ==
        IF ~n_chunks.ok THEN OpenErr(n_chunks.err)
        ELSE GotMin(n_rows, n_chunks, read_u64(n_chunks.st))
      GotRows(n_rows) ==
        IF ~n_rows.ok THEN OpenErr(n_rows.err)
        ELSE GotChunks(n_rows, read_u64(n_rows.st))
      GotMagic(magic) ==
        IF ~magic.ok THEN OpenErr(magic.err)
        ELSE IF magic.v # Xor64(U64_GENERIC_MAGIC, F) THEN BadMagic(magic.v)
        ELSE GotRows(read_u64(magic.st))
  IN GotMagic(read_u64(storage))

\* Bytes::open, one of the two header values: its length field plus l_min,
\* a buffer of that length, and the bytes read into it
BytesOpenValue(storage, format, l_min) ==
  LET Sized(len, sum) ==
        IF sum.over \/ ~Small(sum.v) THEN Err(len.st, "Abort")
        ELSE ReadExact(len.st, ToNat(sum.v))
      GotLen(len) == IF ~len.ok THEN len ELSE Sized(len, Add64(len.v, l_min))
  IN GotLen(read_bitwidth(storage, format.length))

\* Bytes::<F>::open
BytesOpen(F, storage) ==
  LET GotMax(n_rows, n_chunks, l_min, v_min, v_max) ==
        IF ~v_max.ok THEN OpenErr(v_max.err)
        ELSE Opened(Handle("Bytes", F, v_max.st, n_rows.v, n_chunks.v, FALSE,
                           l_min.v, v_min.v, v_max.v))
      GotMin(format, n_rows, n_chunks, l_min, v_min) ==
        IF ~v_min.ok THEN OpenErr(v_min.err)
        ELSE GotMax(n_rows, n_chunks, l_min, v_min,
                    BytesOpenValue(v_min.st, format, l_min.v))
      GotLMin(format, n_rows, n_chunks, l_min) ==
        IF ~l_min.ok THEN OpenErr(l_min.err)
        ELSE GotMin(format, n_rows, n_chunks, l_min,
                    BytesOpenValue(l_min.st, format, l_min.v))
      GotChunks(format, n_rows, n_chunks) ==
        IF ~n_chunks.ok THEN OpenErr(n_chunks.err)
        ELSE GotLMin(format, n_rows, n_chunks, read_u64(n_chunks.st))
      GotRows(format, n_rows) ==
        IF ~n_rows.ok THEN OpenErr(n_rows.err)
        ELSE GotChunks(format, n_rows, read_u64(n_rows.st))
      GotMagic(format, magic) ==
        IF ~format.ok THEN OpenErr("OutOfBounds")
        ELSE IF ~magic.ok THEN OpenErr(magic.err)
        ELSE IF magic.v # BytesMagic(F) THEN BadMagic(magic.v)
        ELSE GotRows(format, read_u64(magic.st))
  IN GotMagic(BytesFormatFromBytes(F), read_u64(storage))

\* open_storage without the rewind: the codec starts after the magic
open_storageOnward(storage) ==
  LET Rewound(magic, back) ==
        IF magic.v = BOOL_MAGIC THEN BoolOpen(back.st)
        ELSE IF \E F \in BytesFormats : BytesMagic(F) = magic.v
        THEN BytesOpen(CHOOSE F \in BytesFormats : BytesMagic(F) = magic.v, back.st)
        ELSE IF \E F \in U64Formats : U64Magic(F) = magic.v
        THEN U64Open(CHOOSE F \in U64Formats : U64Magic(F) = magic.v, back.st)
        ELSE BadMagic(magic.v)
      GotMagic(magic) ==
        IF ~magic.ok THEN OpenErr(magic.err)
        ELSE Rewound(magic, Ok(magic.st, <<>>))
  IN GotMagic(read_u64(storage))

\* RawColumn::open_storage: read the magic, rewind, open the codec it names
open_storage(storage) ==
  LET Rewound(magic, back) ==
        IF ~back.ok THEN OpenErr(back.err)
        ELSE IF magic.v = BOOL_MAGIC THEN BoolOpen(back.st)
        ELSE IF \E F \in BytesFormats : BytesMagic(F) = magic.v
        THEN BytesOpen(CHOOSE F \in BytesFormats : BytesMagic(F) = magic.v, back.st)
        ELSE IF \E F \in U64Formats : U64Magic(F) = magic.v
        THEN U64Open(CHOOSE F \in U64Formats : U64Magic(F) = magic.v, back.st)
        ELSE BadMagic(magic.v)
      GotMagic(magic) ==
        IF ~magic.ok THEN OpenErr(magic.err)
        ELSE Rewound(magic, StorageSeek(magic.st, 0))
  IN GotMagic(read_u64(storage))

\* The result of one step of the iterator: kind is "None" (the end),
\* "Chunk", "Err" (a StorageError) or "Abort" (the call does not return);
\* h is the handle after the call.
Chunk(value, start, end) == [value |-> value, start |-> start, end |-> end]
NoChunk == Chunk(<<>>, U64(0), U64(0))
StepNone(h) == [kind |-> "None", h |-> h, chunk |-> NoChunk, err |-> "none"]
StepChunk(h, c) == [kind |-> "Chunk", h |-> h, chunk |-> c, err |-> "none"]
StepErr(h, e) == [kind |-> "Err", h |-> h, chunk |-> NoChunk, err |-> e]
StepAbort(h) == [kind |-> "Abort", h |-> h, chunk |-> NoChunk, err |-> "none"]

\* BoolColumn::transposed_next
BoolNext(h) ==
  LET Counted(num, row) ==
        IF ~num.ok THEN StepErr([h EXCEPT !.storage = num.st], num.err)
        ELSE IF row.over THEN StepAbort([h EXCEPT !.storage = num.st])
        ELSE StepChunk([h EXCEPT !.storage = num.st, !.current_row = row.v,
                                 !.last = ~h.last],
                       Chunk(~h.last, h.current_row, row.v))
      GotNum(num) == Counted(num, Add64(h.current_row, num.v))
  IN IF h.current_row = h.n_rows THEN StepNone(h)
     ELSE GotNum(read_usigned(h.storage))

\* U64::<F>::transposed_next
U64Next(h) ==
  LET Summed(num, val, value, row) ==
        IF value.over \/ row.over THEN StepAbort([h EXCEPT !.storage = val.st])
        ELSE StepChunk([h EXCEPT !.storage = val.st, !.current_row = row.v],
                       Chunk(value.v, h.current_row, row.v))
      GotVal(num, val) ==
        IF ~val.ok THEN StepErr([h EXCEPT !.storage = val.st], val.err)
        ELSE Summed(num, val, Add64(h.v_min, val.v), Add64(h.current_row, num.v))
      GotNum(format, num) ==
        IF ~num.ok THEN StepErr([h EXCEPT !.storage = num.st], num.err)
        ELSE GotVal(num, read_bitwidth(num.st, format.value))
      GotFormat(format) ==
        IF ~format.ok THEN StepErr(h, "OutOfBounds")
        ELSE GotNum(format, read_bitwidth(h.storage, format.runlength))
  IN IF h.current_row = h.n_rows THEN StepNone(h)
     ELSE GotFormat(U64FormatFromBytes(h.F))

\* previous.truncate(prefix), then length - prefix zeros pushed
Spliced(previous, plen, length) ==
  SubSeq(previous, 1, IF plen < Len(previous) THEN plen ELSE Len(previous))
  \o [i \in 1..(length - plen) |-> 0]

\* Bytes::<F>::transposed_next
BytesNext(h) ==
  LET Valued(h2, tail, value, row) ==
        IF row.over
        THEN StepAbort([h2 EXCEPT !.storage = tail.st, !.previous = value])
        ELSE StepChunk([h2 EXCEPT !.storage = tail.st, !.previous = value,
                                  !.current_row = row.v],
                       Chunk(value, h.current_row, row.v))
      GotTail(num, plen, grown, h2, tail) ==
        IF ~tail.ok THEN StepErr([h2 EXCEPT !.storage = tail.st], tail.err)
        ELSE Valued(h2, tail, SubSeq(grown, 1, plen) \o tail.v,
                    Add64(h.current_row, num.v))
      Grown(num, pre, plen, llen, grown, h2) ==
        IF Len(grown) < llen THEN StepAbort(h2)
        ELSE GotTail(num, plen, grown, h2, ReadExact(pre.st, llen - plen))
      Sized(num, pre, h1, plen, llen, grown) ==
        Grown(num, pre, plen, llen, grown, [h1 EXCEPT !.previous = grown])
      Measured(num, pre, h1, plen, llen) ==
        IF llen < plen THEN StepAbort(h1)
        ELSE Sized(num, pre, h1, plen, llen, Spliced(h.previous, plen, llen))
      Stored(num, length, pre, h1) ==
        IF ~pre.ok THEN StepErr(h1, pre.err)
        ELSE IF ~Small(pre.v) \/ ~Small(length.v) THEN StepAbort(h1)
        ELSE Measured(num, pre, h1, ToNat(pre.v), ToNat(length.v))
      GotPre(num, length, pre) ==
        Stored(num, length, pre, [h EXCEPT !.storage = pre.st])
      Added(format, num, len, length) ==
        IF length.over THEN StepAbort([h EXCEPT !.storage = len.st])
        ELSE GotPre(num, length, read_bitwidth(len.st, format.prefix))
      GotLen(format, num, len) ==
        IF ~len.ok THEN StepErr([h EXCEPT !.storage = len.st], len.err)
        ELSE Added(format, num, len, Add64(h.l_min, len.v))
      GotNum(format, num) ==
        IF ~num.ok THEN StepErr([h EXCEPT !.storage = num.st], num.err)
        ELSE GotLen(format, num, read_bitwidth(num.st, format.length))
      GotFormat(format) ==
        IF ~format.ok THEN StepErr(h, "OutOfBounds")
        ELSE GotNum(format, read_bitwidth(h.storage, format.runlength))
  IN IF h.current_row = h.n_rows THEN StepNone(h)
     ELSE GotFormat(BytesFormatFromBytes(h.F))

\* Iterator::next of the handle's codec
ColumnNext(h) ==
  CASE h.codec = "Bool" -> BoolNext(h)
    [] h.codec = "U64" -> U64Next(h)
    [] h.codec = "Bytes" -> BytesNext(h)

\* IsRawColumn::tell
ColumnTell(h) == StorageTell(h.storage)

\* a seek that moves the storage offset and leaves the row counter alone
ColumnSeekOffsetOnly(h, offset, row_number, value) ==
  LET Moved(sk) == [ok |-> sk.ok, h |-> [h EXCEPT !.storage = sk.st]]
  IN Moved(StorageSeek(h.storage, offset))

\* IsRawColumn::seek: the row counter (and the boolean polarity) are set
\* first, then the storage seeks
ColumnSeek(h, offset, row_number, value) ==
  LET Moved(h1, sk) == [ok |-> sk.ok, h |-> [h1 EXCEPT !.storage = sk.st]]
      Placed(h1) == Moved(h1, StorageSeek(h1.storage, offset))
  IN Placed(IF h.codec = "Bool"
            THEN [h EXCEPT !.current_row = row_number, !.last = ~value]
            ELSE [h EXCEPT !.current_row = row_number])

\* IsRawColumn::num_rows / num_chunks / max / min
num_rows(h) == h.n_rows
num_chunks(h) == h.n_chunks
ColumnMax(h) ==
  IF h.codec = "Bool" THEN (Gt64(h.n_chunks, U64(1)) \/ ~h.last) ELSE h.v_max
ColumnMin(h) ==
  IF h.codec = "Bool" THEN (~Gt64(h.n_chunks, U64(1)) /\ h.last) ELSE h.v_min

\* ------------------------------------------------------------ the inputs
RECURSIVE SeqsUpTo(_, _)
SeqsUpTo(S, n) ==
  IF n = 0 THEN {<<>>}
  ELSE LET Longer(shorter) ==
             shorter \cup {Append(q, x) : q \in {r \in shorter : Len(r) = n - 1}, x \in S}
       IN Longer(SeqsUpTo(S, n - 1))

\* integers on both sides of every width boundary: against 1 the gaps are
\* 2^8, 2^16 and 2^32, against 2 they are 2^8 - 1, 2^16 - 1 and 2^32 - 1
IntVals ==
  {U64(1), U64(2), U64(257), U64(65537), <<0, 0, 0, 1, 0, 0, 0, 1>>, U64_MAX}

\* byte strings of equal and of different lengths, with and without
\* shared leading bytes
StrVals == {<<>>, <<97>>, <<98>>, <<97, 97>>, <<97, 98>>}

Inputs(k) ==
  CASE k = "bool" -> SeqsUpTo(BOOLEAN, MaxBools)
    [] k = "u64" -> SeqsUpTo(IntVals, MaxInts)
    [] k = "bytes" -> SeqsUpTo(StrVals, MaxStrs)

\* ------------------------------------------------------------- the state
VARIABLES
  kind,     \* "bool", "u64" or "bytes": the entry points used
  input,    \* the slice of values handed to write_*
  pc,       \* "start", "written", "open", "failed" (open returned an error)
            \* or "aborted" (the unwrap in From panicked)
  wres,     \* the result of write_*
  sink,     \* the bytes write_* put in the sink
  openErr,  \* the error open returned
  col,      \* the handle as open returned it
  it,       \* a clone iterated from open without seeking
  scan,     \* the results of it.next() so far
  tokens,   \* (tell(), range.end, value) recorded after each chunk of scan
  cur,      \* another clone, which seeks to recorded tokens
  seekK,    \* the token cur sought last; 0 before any seek
  since     \* the results of cur.next() since then

\* one field written by write_bitwidth and read back by read_bitwidth, and
\* the same value through the slice-based write_u64 / read_u64
VARIABLES
  fpc,      \* "idle", "start", "written", "read", "pushed" or "split"
  fv,       \* the value
  fw,       \* the width of the field
  fback,    \* the backend the field is read from
  ftail,    \* the bytes that follow the field in the storage or the slice
  fwr,      \* the result of the write and the bytes written
  frd,      \* the result of read_bitwidth
  fsl       \* the result of the slice-based read_u64

\* two clones of one storage or column handle, each next to a copy of
\* itself that takes the same steps alone on a descriptor of its own
VARIABLES
  spc,      \* "idle", "start" or "probed" (an open was tried)
  opened,   \* the open that was tried and its result
  clone,    \* the two clones
  solo,     \* the two copies that run alone
  got,      \* each clone's latest call and its result
  sgot,     \* the same of each copy
  who       \* which clone took each step so far

\* one call of a codec's encode or of a write_* entry point on an empty
\* sink, and the open of what it wrote
VARIABLES
  epc,      \* "idle", "start", "encoded" or "reopened"
  ecodec,   \* the codec, or the entry point
  eruns,    \* the run list handed to encode, or the slice handed to write_*
  eout,     \* the result and the bytes in the sink
  eop       \* the result of the codec's open on those bytes

cvars == <<kind, input, pc, wres, sink, openErr, col, it, scan, tokens, cur, seekK, since>>
fvars == <<fpc, fv, fw, fback, ftail, fwr, frd, fsl>>
svars == <<spc, opened, clone, solo, got, sgot, who>>
evars == <<epc, ecodec, eruns, eout, eop>>
vars == <<cvars, fvars, svars, evars>>

\* the parts of the state a run of the column pipeline leaves alone
aside == <<fvars, svars, evars>>

\* no field under test
FieldIdle ==
  /\ fpc = "idle"
  /\ fv = U64(0)
  /\ fw = "IsOne"
  /\ fback = "Bytes"
  /\ ftail = <<>>
  /\ fwr = WErr
  /\ frd = Err(Storage("Bytes", <<>>), "none")
  /\ fsl = SliceErr

\* no call made yet
NoCall ==
  [op |-> "none", arg |-> <<>>, from |-> 0, ok |-> TRUE, err |-> "none",
   v |-> <<>>, tell |-> 0]

\* no storage under test
StoreIdle ==
  /\ spc = "idle"
  /\ opened = [on |-> "none", probe |-> <<"none", NoFormat>>, res |-> OpenErr("none")]
  /\ clone = [c \in 1..2 |-> NoHandle]
  /\ solo = [c \in 1..2 |-> NoHandle]
  /\ got = [c \in 1..2 |-> NoCall]
  /\ sgot = [c \in 1..2 |-> NoCall]
  /\ who = <<>>

\* no encoder under test
EncodeIdle ==
  /\ epc = "idle"
  /\ ecodec = <<"none", NoFormat>>
  /\ eruns = <<>>
  /\ eout = EncOk(<<>>)
  /\ eop = OpenErr("none")

Init ==
  /\ FieldIdle
  /\ StoreIdle
  /\ EncodeIdle
  /\ kind \in {"bool", "u64", "bytes"}
  /\ input \in Inputs(kind)
  /\ pc = "start"
  /\ wres = "none"
  /\ sink = <<>>
  /\ openErr = "none"
  /\ col = NoHandle
  /\ it = NoHandle
  /\ scan = <<>>
  /\ tokens = <<>>
  /\ cur = NoHandle
  /\ seekK = 0
  /\ since = <<>>

\* RawColumn::write_bools / write_u64 / write_bytes into an empty Vec<u8>
WriteColumn(k, vals) ==
  CASE k = "bool" -> RawColumn_write_bools(vals)
    [] k = "u64" -> RawColumn_write_u64(vals)
    [] k = "bytes" -> RawColumn_write_bytes(vals)

Write ==
  /\ pc = "start"
  /\ \E w \in {WriteColumn(kind, input)} :
       /\ wres' = w.res
       /\ sink' = w.bytes
  /\ pc' = "written"
  /\ UNCHANGED <<kind, input, openErr, col, it, scan, tokens, cur, seekK, since, aside>>

\* The three ways to a RawColumn: From (in memory, unwrapping the results
\* of write_* and open_storage), decode (in memory) and open / try_from
\* (a file).
Entries == {"from", "decode", "open"}
EntryBackend(entry) == IF entry = "open" THEN "File" ELSE "Bytes"

Open(entry) ==
  /\ pc = "written"
  /\ \E r \in {open_storage(Storage(EntryBackend(entry), sink))} :
        IF entry = "from" /\ wres # "Ok"
        THEN /\ pc' = "aborted"
             /\ UNCHANGED <<openErr, col, it, cur>>
        ELSE IF r.ok
        THEN /\ pc' = "open"
             /\ col' = r.h
             /\ it' = r.h
             /\ cur' = r.h
             /\ UNCHANGED openErr
        ELSE /\ pc' = IF entry = "from" THEN "aborted" ELSE "failed"
             /\ openErr' = r.err
             /\ UNCHANGED <<col, it, cur>>
  /\ UNCHANGED <<kind, input, wres, sink, scan, tokens, seekK, since, aside>>

\* what the caller keeps of a step: its kind, its chunk and its error
Result(step) == [kind |-> step.kind, chunk |-> step.chunk, err |-> step.err]

Running(results) ==
  IF results = <<>> THEN TRUE ELSE results[Len(results)].kind = "Chunk"

\* it.next(), and the token recorded when it yields a chunk
ScanNext ==
  /\ pc = "open"
  /\ Running(scan)
  /\ \E step \in {ColumnNext(it)} :
       /\ it' = step.h
       /\ scan' = Append(scan, Result(step))
       /\ tokens' = IF step.kind = "Chunk"
                    THEN Append(tokens, [offset |-> ColumnTell(step.h),
                                         row_number |-> step.chunk.end,
                                         value |-> step.chunk.value])
                    ELSE tokens
  /\ UNCHANGED <<kind, input, pc, wres, sink, openErr, col, cur, seekK, since, aside>>

\* cur.next(), once the scan is over
CurNext ==
  /\ pc = "open"
  /\ ~Running(scan)
  /\ Running(since)
  /\ \E step \in {ColumnNext(cur)} :
       /\ cur' = step.h
       /\ since' = Append(since, Result(step))
  /\ UNCHANGED <<kind, input, pc, wres, sink, openErr, col, it, scan, tokens, seekK, aside>>

\* cur.seek(offset, row_number, value) with the k-th recorded token
CurSeek(k) ==
  /\ pc = "open"
  /\ ~Running(scan)
  /\ \E r \in {ColumnSeek(cur, tokens[k].offset, tokens[k].row_number,
                           tokens[k].value)} :
       /\ cur' = r.h
       /\ since' = IF r.ok THEN <<>>
                   ELSE <<[kind |-> "SeekErr", chunk |-> NoChunk, err |-> "Io"]>>
  /\ seekK' = k
  /\ UNCHANGED <<kind, input, pc, wres, sink, openErr, col, it, scan, tokens, aside>>

\* cur.seek(offset, row_number, value) with the row and value of the k-th
\* recorded token and an offset beyond the end of the backing bytes; the
\* call returns Err(Io)
CurSeekPast(k) ==
  /\ pc = "open"
  /\ ~Running(scan)
  /\ \E r \in {ColumnSeek(cur, Len(sink) + 1, tokens[k].row_number,
                           tokens[k].value)} :
       /\ ~r.ok
       /\ cur' = r.h
  /\ since' = <<[kind |-> "SeekErr", chunk |-> NoChunk, err |-> "Io"]>>
  /\ seekK' = 0
  /\ UNCHANGED <<kind, input, pc, wres, sink, openErr, col, it, scan, tokens, aside>>

Next ==
  \/ Write
  \/ \E entry \in Entries : Open(entry)
  \/ ScanNext
  \/ CurNext
  \/ \E k \in 1..Len(tokens) : CurSeek(k)
  \/ \E k \in 1..Len(tokens) : CurSeekPast(k)

Spec == Init /\ [][Next]_vars

\* ------------------------------------------------- one field, both ways
\* no column under test
ColumnIdle ==
  /\ kind = "bool"
  /\ input = <<>>
  /\ pc = "idle"
  /\ wres = "none"
  /\ sink = <<>>
  /\ openErr = "none"
  /\ col = NoHandle
  /\ it = NoHandle
  /\ scan = <<>>
  /\ tokens = <<>>
  /\ cur = NoHandle
  /\ seekK = 0
  /\ since = <<>>

\* values on both sides of every boundary of the variable-width scheme and
\* of the fixed widths
FieldVals ==
  {U64(0), U64(1), U64(2), U64(252), U64(253), U64(254), U64(255), U64(256),
   U64(65534), U64(65535), U64(65536), <<0, 0, 0, 0, 255, 255, 255, 254>>,
   U32_MAX, <<0, 0, 0, 1, 0, 0, 0, 0>>, U64_MAX}

\* what follows the field: nothing, a plain byte, bytes that look like a
\* sentinel
FieldTails == {<<>>, <<7>>, <<255, 1>>}

FieldInit ==
  /\ ColumnIdle
  /\ StoreIdle
  /\ EncodeIdle
  /\ fpc = "start"
  /\ fv \in FieldVals
  /\ fw \in BitWidths
  /\ fback \in Backends
  /\ ftail \in FieldTails
  /\ fwr = WErr
  /\ frd = Err(Storage("Bytes", <<>>), "none")
  /\ fsl = SliceErr

\* out.write_bitwidth(fw, fv) into an empty Vec<u8>
FieldWrite ==
  /\ fpc = "start"
  /\ fwr' = write_bitwidth(fw, fv)
  /\ fpc' = "written"
  /\ UNCHANGED <<cvars, svars, evars, fv, fw, fback, ftail, frd, fsl>>

\* storage.read_bitwidth(fw) at the start of the written bytes
FieldRead ==
  /\ fpc = "written"
  /\ fwr.ok
  /\ frd' = read_bitwidth(Storage(fback, fwr.bytes \o ftail), fw)
  /\ fpc' = "read"
  /\ UNCHANGED <<cvars, svars, evars, fv, fw, fback, ftail, fwr, fsl>>

\* encoding::write_u64(&mut buf, fv) on an empty buf
SlicePush ==
  /\ fpc = "start"
  /\ fwr' = WOk(encoding_write_u64(fv))
  /\ fpc' = "pushed"
  /\ UNCHANGED <<cvars, svars, evars, fv, fw, fback, ftail, frd, fsl>>

\* encoding::read_u64 of the pushed bytes and what follows them
SliceRead ==
  /\ fpc = "pushed"
  /\ fsl' = encoding_read_u64(fwr.bytes \o ftail)
  /\ fpc' = "split"
  /\ UNCHANGED <<cvars, svars, evars, fv, fw, fback, ftail, fwr, frd>>

FieldNext == FieldWrite \/ FieldRead \/ SlicePush \/ SliceRead

FieldSpec == FieldInit /\ [][FieldNext]_vars

\* ------------------------------------------- storages, opens and clones
MaxSteps == 3

\* the concrete codecs: the boolean one, the eight integer formats and the
\* four byte-string formats
Codecs ==
  {<<"Bool", NoFormat>>} \cup ({"U64"} \X U64Formats) \cup ({"Bytes"} \X BytesFormats)

\* the magic number of a codec
CodecMagic(c) ==
  CASE c[1] = "Bool" -> BOOL_MAGIC
    [] c[1] = "U64" -> U64Magic(c[2])
    [] c[1] = "Bytes" -> BytesMagic(c[2])

\* IsRawColumn::open of a codec; "Raw" is RawColumn::open_storage
CodecOpen(c, storage) ==
  CASE c[1] = "Bool" -> BoolOpen(storage)
    [] c[1] = "U64" -> U64Open(c[2], storage)
    [] c[1] = "Bytes" -> BytesOpen(c[2], storage)
    [] c[1] = "Raw" -> open_storage(storage)

\* three written columns
Columns ==
  {WriteColumn("bool", <<TRUE, FALSE>>).bytes,
   WriteColumn("u64", <<U64(1), U64(1), U64(2)>>).bytes,
   WriteColumn("bytes", <<<<97>>, <<97, 98>>>>).bytes}

\* every known magic and three unknown ones in front of a header of zeros
Headers ==
  {m \o [i \in 1..40 |-> 0] :
     m \in {CodecMagic(c) : c \in Codecs}
            \cup {NoFormat, U64_GENERIC_MAGIC, [BOOL_MAGIC EXCEPT ![8] = 96]}}

StoreInit ==
  /\ ColumnIdle
  /\ FieldIdle
  /\ EncodeIdle
  /\ spc = "start"
  /\ \E backend \in Backends, on \in {"column", "header"} :
     \E bytes \in IF on = "column" THEN Columns ELSE Headers :
       /\ opened = [on |-> on, probe |-> <<"none", NoFormat>>, res |-> OpenErr("none")]
       /\ clone = [c \in 1..2 |-> [NoHandle EXCEPT !.storage = Storage(backend, bytes)]]
       /\ solo = [c \in 1..2 |-> [NoHandle EXCEPT !.storage = Storage(backend, bytes)]]
  /\ got = [c \in 1..2 |-> NoCall]
  /\ sgot = [c \in 1..2 |-> NoCall]
  /\ who = <<>>

\* the storage as handed to open: the backing bytes at offset 0
Fresh == Storage(clone[1].storage.backend, clone[1].storage.buf)

\* open of one codec, or open_storage, on the storage; the clones are
\* clones of the handle it returns
ProbeOpen(c) ==
  /\ spc = "start"
  /\ who = <<>>
  /\ spc' = "probed"
  /\ \E r \in {CodecOpen(c, Fresh)} :
       /\ opened' = [opened EXCEPT !.probe = c, !.res = r]
       /\ clone' = IF r.ok THEN [i \in 1..2 |-> r.h] ELSE clone
       /\ solo' = IF r.ok THEN [i \in 1..2 |-> r.h] ELSE solo
  /\ UNCHANGED <<cvars, fvars, evars, got, sgot, who>>

\* a call on clone c of a written column or of its storage: r is the call
\* made on the clone, s the same call made on its copy; the other clone
\* finds the shared descriptor where the call left it
Call(c, r, s) ==
  /\ Len(who) < MaxSteps
  /\ opened.on = "column"
  /\ spc = "start" \/ (spc = "probed" /\ opened.res.ok)
  /\ who' = Append(who, c)
  /\ clone' = [i \in 1..2 |->
                 IF i = c THEN r.h
                 ELSE [clone[i] EXCEPT !.storage.fd = r.h.storage.fd]]
  /\ solo' = [solo EXCEPT ![c] = s.h]
  /\ got' = [got EXCEPT ![c] = r.call]
  /\ sgot' = [sgot EXCEPT ![c] = s.call]
  /\ UNCHANGED <<cvars, fvars, evars, spc, opened>>

\* storage.seek(k)
CloneSeek(c, k) ==
  LET Did(h, sk) ==
        [h |-> [h EXCEPT !.storage = sk.st],
         call |-> [op |-> "seek", arg |-> <<k>>, from |-> StorageTell(h.storage),
                   ok |-> sk.ok, err |-> sk.err, v |-> <<>>, tell |-> StorageTell(sk.st)]]
      Op(h) == Did(h, StorageSeek(h.storage, k))
  IN Call(c, Op(clone[c]), Op(solo[c]))

\* storage.read_exact(buf) with a buf of n bytes
CloneReadExact(c, n) ==
  LET Did(h, rd) ==
        [h |-> [h EXCEPT !.storage = rd.st],
         call |-> [op |-> "read_exact", arg |-> <<n>>, from |-> StorageTell(h.storage),
                   ok |-> rd.ok, err |-> rd.err, v |-> rd.v, tell |-> StorageTell(rd.st)]]
      Op(h) == Did(h, ReadExact(h.storage, n))
  IN Call(c, Op(clone[c]), Op(solo[c]))

\* storage.read_exact_at(buf, offset) with a buf of n bytes
CloneReadAt(c, n, offset) ==
  LET Did(h, rd) ==
        [h |-> [h EXCEPT !.storage = rd.st],
         call |-> [op |-> "read_exact_at", arg |-> <<n, offset>>,
                   from |-> StorageTell(h.storage),
                   ok |-> rd.ok, err |-> rd.err, v |-> rd.v, tell |-> StorageTell(rd.st)]]
      Op(h) == Did(h, ReadExactAt(h.storage, n, offset))
  IN Call(c, Op(clone[c]), Op(solo[c]))

\* column.next()
CloneNext(c) ==
  LET Did(h, step) ==
        [h |-> step.h,
         call |-> [op |-> "next", arg |-> <<>>, from |-> StorageTell(h.storage),
                   ok |-> step.kind \in {"Chunk", "None"}, err |-> step.err,
                   v |-> Result(step),
                   tell |-> StorageTell(step.h.storage)]]
      Op(h) == Did(h, ColumnNext(h))
  IN clone[c].codec # "None" /\ Call(c, Op(clone[c]), Op(solo[c]))

\* the offsets of the calls: the start, the last byte, the end and one
\* past the end of the backing bytes
End == Len(clone[1].storage.buf)
Ends == {0, End - 1, End, End + 1}

StoreNext ==
  \/ \E c \in Codecs \cup {<<"Raw", NoFormat>>} : ProbeOpen(c)
  \/ \E c \in 1..2, k \in Ends : CloneSeek(c, k)
  \/ \E c \in 1..2 : CloneReadExact(c, 1)
  \/ \E c \in 1..2, k \in {End - 1, End} : CloneReadAt(c, 1, k)
  \/ \E c \in 1..2 : CloneNext(c)

StoreSpec == StoreInit /\ [][StoreNext]_vars

\* ------------------------------------------- bytes from somewhere else
\* the columns that are cut short: each has three rows in two chunks
Originals ==
  {<<"bool", <<TRUE, TRUE, FALSE>>>>,
   <<"u64", <<U64(1), U64(1), U64(2)>>>>,
   <<"bytes", <<<<97>>, <<97, 98>>, <<97, 98>>>>>>}

\* headers and run records no encoder writes.  In this order: a boolean
\* column and an integer column whose run lengths add up past u64::MAX, an
\* integer column whose header minimum plus a stored delta passes
\* u64::MAX, a byte-string column whose header length passes u64::MAX, one
\* whose record has a prefix count above its length, and one whose first
\* record shares one byte with a previous value that is empty.  Two bytes
\* follow each of them.
Malformed ==
  {BOOL_MAGIC \o <<1, 2, 1>> \o <<255>> \o U64_MAX \o <<255>> \o U64_MAX \o <<0, 0>>,
   U64Magic(VariableVariable) \o U64(1) \o U64(2) \o U64(0) \o U64(0)
     \o <<255>> \o U64_MAX \o <<0>> \o <<255>> \o U64_MAX \o <<0>> \o <<0, 0>>,
   U64Magic(U8One) \o U64(1) \o U64(1) \o U64_MAX \o U64_MAX \o <<1>> \o <<0, 0>>,
   BytesMagic(VVV) \o U64(1) \o U64(1) \o U64_MAX \o <<1>> \o <<0, 0>>,
   BytesMagic(VVV) \o U64(1) \o U64(1) \o U64(0) \o <<0, 0>>
     \o <<1, 1, 2>> \o <<0, 0>>,
   BytesMagic(VVV) \o U64(1) \o U64(1) \o U64(0) \o <<0, 0>>
     \o <<1, 2, 1>> \o <<98>> \o <<0, 0>>}

\* RawColumn::decode(buf) and RawColumn::try_from(file) are handed either
\* the first n bytes of a written column or malformed bytes
DecodeInit ==
  /\ FieldIdle
  /\ StoreIdle
  /\ EncodeIdle
  /\ pc = "written"
  /\ wres = "none"
  /\ \/ \E o \in Originals :
          /\ kind = o[1]
          /\ input = o[2]
          /\ \E n \in 0..Len(WriteColumn(o[1], o[2]).bytes) :
               sink = SubSeq(WriteColumn(o[1], o[2]).bytes, 1, n)
     \/ /\ kind = "bytes"
        /\ input = <<>>
        /\ sink \in Malformed
  /\ openErr = "none"
  /\ col = NoHandle
  /\ it = NoHandle
  /\ scan = <<>>
  /\ tokens = <<>>
  /\ cur = NoHandle
  /\ seekK = 0
  /\ since = <<>>

\* decode or try_from, then column_to_vec
DecodeNext ==
  \/ \E entry \in {"decode", "open"} : Open(entry)
  \/ ScanNext

DecodeSpec == DecodeInit /\ [][DecodeNext]_vars

\* ------------------------------------------------- the encoders alone
\* the entry points
Writers == {<<"write_bools", NoFormat>>, <<"write_u64", NoFormat>>,
            <<"write_bytes", NoFormat>>}

\* IsRawColumn::encode of a codec, or RawColumn::write_*
CodecEncode(c, in) ==
  CASE c[1] = "Bool" -> BoolEncode(in)
    [] c[1] = "U64" -> U64Encode(c[2], in)
    [] c[1] = "Bytes" -> BytesEncode(c[2], in)
    [] c[1] = "write_bools" -> RawColumn_write_bools(in)
    [] c[1] = "write_u64" -> RawColumn_write_u64(in)
    [] c[1] = "write_bytes" -> RawColumn_write_bytes(in)

\* the values: integers 2^8 - 1, 2^8 and 2^32 apart, byte strings of
\* three lengths
EncodeVals(c) ==
  CASE c[1] \in {"Bool", "write_bools"} -> BOOLEAN
    [] c[1] \in {"U64", "write_u64"} ->
         {U64(1), U64(2), U64(257), <<0, 0, 0, 1, 0, 0, 0, 1>>}
    [] c[1] \in {"Bytes", "write_bytes"} -> {<<>>, <<97>>, <<97, 98>>}

\* up to two runs of one or two rows for encode, up to two values for
\* write_*
EncodeInputs(c) ==
  IF c \in Writers THEN SeqsUpTo(EncodeVals(c), 2)
  ELSE SeqsUpTo(EncodeVals(c) \X {1, 2}, 2)

EncodeInit ==
  /\ ColumnIdle
  /\ FieldIdle
  /\ StoreIdle
  /\ epc = "start"
  /\ ecodec \in Codecs \cup Writers
  /\ eruns \in EncodeInputs(ecodec)
  /\ eout = EncOk(<<>>)
  /\ eop = OpenErr("none")

\* encode(&mut out, eruns) or write_*(&mut out, eruns) with an empty out
Encode ==
  /\ epc = "start"
  /\ epc' = "encoded"
  /\ eout' = CodecEncode(ecodec, eruns)
  /\ UNCHANGED <<cvars, fvars, svars, ecodec, eruns, eop>>

\* the codec's open, or open_storage, on a file that holds the sink
Reopen ==
  /\ epc = "encoded"
  /\ epc' = "reopened"
  /\ eop' = CodecOpen(IF ecodec \in Writers THEN <<"Raw", NoFormat>> ELSE ecodec,
                      Storage("File", eout.bytes))
  /\ UNCHANGED <<cvars, fvars, svars, ecodec, eruns, eout>>

EncodeNext == Encode \/ Reopen

EncodeSpec == EncodeInit /\ [][EncodeNext]_vars

\* ---------------------------------------------------------- properties
Last(q) == q[Len(q)]

\* column_to_vec: every chunk's value once per row of its range
RECURSIVE Repeat(_, _)
Repeat(x, n) == IF n <= 0 THEN <<>> ELSE <<x>> \o Repeat(x, n - 1)

RECURSIVE Rows(_)
Rows(results) ==
  IF results = <<>> THEN <<>>
  ELSE IF results[1].kind # "Chunk" THEN <<>>
  ELSE LET Spread(c, n) == IF n.under THEN <<>> ELSE Repeat(c.value, ToNat(n.v))
       IN Spread(results[1].chunk, Sub64(results[1].chunk.end, results[1].chunk.start))
          \o Rows(Tail(results))

\* read_bools / read_u64 / read_bytes returned Ok(vals)
ReadOk(vals) == ~Running(scan) /\ Last(scan).kind = "None" /\ Rows(scan) = vals

\* the column was built and opened, and the scan of it is over
Scanned == pc = "open" /\ ~Running(scan)

\* writing and opening did not fail
NoFailure == wres \in {"none", "Ok"} /\ pc \notin {"failed", "aborted"}

OnFile == pc = "open" /\ col.storage.backend = "File"

\* C1: every non-empty slice of u64 written by write_u64 is opened without
\* error and read back by read_u64 exactly, on every way to a RawColumn
C1_IntegerRoundTrip ==
  (kind = "u64" /\ input # <<>>) => (NoFailure /\ (Scanned => ReadOk(input)))

\* C2: every non-empty slice of bools written by write_bools is opened
\* without error and read back by read_bools exactly; the first yielded
\* value is the first input value and each later chunk negates the one before
C2_BoolRoundTrip ==
  (kind = "bool" /\ input # <<>>) =>
    /\ NoFailure
    /\ Scanned => ReadOk(input)
    /\ \A i \in 1..Len(scan) : scan[i].kind = "Chunk" =>
         scan[i].chunk.value = (IF i = 1 THEN input[1] ELSE ~scan[i - 1].chunk.value)

\* C3: every non-empty slice of byte strings written by write_bytes is
\* opened without error and read back by read_bytes exactly, with equal
\* lengths (fixed-length formats) and with different lengths
C3_BytesRoundTrip ==
  (kind = "bytes" /\ input # <<>>) => (NoFailure /\ (Scanned => ReadOk(input)))

\* C4: an empty slice gives a column, whose materialization is empty
C4_EmptyRoundTrip ==
  (input = <<>> /\ pc \notin {"start", "written"}) =>
    (pc = "open" /\ (Scanned => ReadOk(<<>>)))

\* the round trip of the three kinds on the file backend
RoundTripOnFile ==
  (input # <<>>) => (wres \in {"none", "Ok"} /\ ((OnFile /\ Scanned) => ReadOk(input)))

\* cur sought the token of chunk seekK and the seek returned Ok
Sought == pc = "open" /\ seekK > 0 /\ (since = <<>> \/ since[1].kind # "SeekErr")

\* after a seek to the token of chunk k, the i-th next() returns what the
\* (k+i)-th next() of the uninterrupted scan returned
ResumesScan ==
  \A i \in 1..Len(since) : (seekK + i <= Len(scan)) => since[i] = scan[seekK + i]

\* C5: integer columns: a handle at any position that seeks to the token
\* recorded after chunk k then yields the chunks k+1.. of the scan, with
\* the same values and ranges, and ends as the scan ends
C5_SeekEquivalenceU64 ==
  (kind = "u64" /\ pc = "open" /\ seekK > 0) => (Sought /\ ResumesScan)

\* a seek to the token of the first of three or more chunks, followed by
\* two chunks that took the handle on from the token's offset
C5_Witness ==
  /\ kind = "u64" /\ Sought /\ seekK = 1
  /\ Len(since) = 2 /\ since[2].kind = "Chunk"
  /\ cur.storage.offset # tokens[1].offset

\* C6: byte-string columns: the same, the seek re-priming the front-coding
\* state with the token's value
C6_SeekEquivalenceBytes ==
  (kind = "bytes" /\ pc = "open" /\ seekK > 0) => (Sought /\ ResumesScan)

\* C7: boolean columns: the same; after a seek with the value of chunk k,
\* next() yields the negation of that value
C7_SeekEquivalenceBool ==
  (kind = "bool" /\ pc = "open" /\ seekK > 0) => (Sought /\ ResumesScan)

\* the chunks of a complete scan partition [0, num_rows) into maximal runs
Partition ==
  /\ Last(scan).kind = "None"
  /\ Len(scan) > 1
  /\ scan[1].chunk.start = U64(0)
  /\ scan[Len(scan) - 1].chunk.end = num_rows(col)
  /\ \A i \in 1..(Len(scan) - 1) :
       /\ Lt64(scan[i].chunk.start, scan[i].chunk.end)
       /\ i > 1 => /\ scan[i].chunk.start = scan[i - 1].chunk.end
                   /\ scan[i].chunk.value # scan[i - 1].chunk.value

\* C8: for every column written by write_bools, write_u64 or write_bytes a
\* full iteration from open yields ranges that start at row 0, are
\* non-empty, adjoin, end at num_rows(), and carry no value twice in a row
C8_PartitionInvariant == (input # <<>> /\ Scanned) => Partition

\* the partition on the file backend
PartitionOnFile == (input # <<>> /\ OnFile /\ Scanned) => Partition

\* false < true
LeBool(a, b) == a => b

\* C9: boolean columns: min() <= max() right after open, and every yielded
\* value lies between them
C9_BoolMinMax ==
  (kind = "bool" /\ pc = "open") =>
    /\ LeBool(ColumnMin(col), ColumnMax(col))
    /\ \A i \in 1..Len(scan) : scan[i].kind = "Chunk" =>
         /\ LeBool(ColumnMin(col), scan[i].chunk.value)
         /\ LeBool(scan[i].chunk.value, ColumnMax(col))

\* the order of the values of a kind
LeValue(k, a, b) == IF k = "u64" THEN Le64(a, b) ELSE (a = b \/ LtBytes(a, b))

Elements(vals) == {vals[i] : i \in 1..Len(vals)}

\* C10: integer and byte-string columns: min() and max() of the opened
\* handle are the smallest and the largest input value, so every yielded
\* value lies between them
C10_MinMax ==
  (kind \in {"u64", "bytes"} /\ pc = "open") =>
    /\ ColumnMin(col) \in Elements(input)
    /\ ColumnMax(col) \in Elements(input)
    /\ \A x \in Elements(input) :
         LeValue(kind, ColumnMin(col), x) /\ LeValue(kind, x, ColumnMax(col))
    /\ \A i \in 1..Len(scan) : scan[i].kind = "Chunk" =>
         /\ LeValue(kind, ColumnMin(col), scan[i].chunk.value)
         /\ LeValue(kind, scan[i].chunk.value, ColumnMax(col))

\* a byte-string column whose smallest value is neither its first nor its
\* largest, opened and with a chunk yielded
C10_Witness ==
  /\ kind = "bytes" /\ pc = "open"
  /\ ColumnMin(col) # input[1] /\ ColumnMin(col) # ColumnMax(col)
  /\ Len(scan) > 0 /\ scan[1].kind = "Chunk"

\* C11: after any sequence of next() and seek() calls num_rows(),
\* num_chunks(), min() and max() of a handle are what they were right after
\* open
SameHeader(h) ==
  /\ num_rows(h) = num_rows(col)
  /\ num_chunks(h) = num_chunks(col)
  /\ ColumnMin(h) = ColumnMin(col)
  /\ ColumnMax(h) = ColumnMax(col)

C11_HeaderImmutable == (pc = "open") => (SameHeader(it) /\ SameHeader(cur))

\* the header metadata of integer and byte-string handles
HeaderImmutableGeneric ==
  (pc = "open" /\ kind \in {"u64", "bytes"}) => (SameHeader(it) /\ SameHeader(cur))

\* the format named by the magic number at the head of the sink
SinkFormat ==
  IF kind = "u64"
  THEN U64FormatFromBytes(Xor64(SubSeq(sink, 1, 8), U64_GENERIC_MAGIC))
  ELSE BytesFormatFromBytes(Sub64(SubSeq(sink, 1, 8), BYTES_GENERIC_MAGIC).v)

\* the largest minus the smallest input value
Greatest(vals) == CHOOSE x \in Elements(vals) : \A y \in Elements(vals) : Le64(y, x)
Least(vals) == CHOOSE x \in Elements(vals) : \A y \in Elements(vals) : Le64(x, y)
InputGap == Sub64(Greatest(input), Least(input)).v

\* the value width the width boundaries ask for
WidthFor(gap) ==
  IF Le64(gap, U8_MAX) THEN "U8"
  ELSE IF Le64(gap, U16_MAX) THEN "U16"
  ELSE IF Le64(gap, U32_MAX) THEN "U32"
  ELSE "Variable"

Written(k) == kind = k /\ input # <<>> /\ pc # "start"

\* C12: write_u64 selects the 8-bit value width exactly when max - min is
\* at most 2^8 - 1, the 16-bit width from 2^8 up to 2^16 - 1, the 32-bit
\* width from 2^16 up to 2^32 - 1, and the variable width from 2^32 on
C12_WidthBoundary ==
  Written("u64") => (wres = "Ok" /\ SinkFormat.value = WidthFor(InputGap))

\* a column whose max - min is exactly 2^32 - 1, written with 32-bit values
C12_Witness ==
  Written("u64") /\ InputGap = U32_MAX /\ SinkFormat.value = "U32"

\* two equal values next to each other: the longest run is 2 or more
HasRepeat == \E i \in 1..(Len(input) - 1) : input[i] = input[i + 1]

\* C13: for a non-empty input write_u64 and write_bytes select a format
\* whose run-length field is the fixed-1 tag exactly when the longest run
\* is 1, and a variable-width run-length field exactly when it is 2 or more
C13_RunLengthBoundary ==
  (Written("u64") \/ Written("bytes")) =>
    SinkFormat.runlength = (IF HasRepeat THEN "Variable" ELSE "IsOne")

\* a byte-string column whose only repeat comes after its first run
C13_Witness ==
  /\ Written("bytes") /\ Len(input) = 3
  /\ input[1] # input[2] /\ input[2] = input[3]
  /\ SinkFormat.runlength = "Variable"

\* C14: for every u64 v, write_unsigned(v) followed by read_usigned at the
\* start of the written bytes returns v and advances the offset by the
\* number of bytes written (1, 3, 5 or 9); the slice-based write_u64 and
\* read_u64 return v and the untouched remainder of the buffer
ReadBack ==
  frd.ok /\ frd.v = fv /\ StorageTell(frd.st) = Len(fwr.bytes)

C14_VarintRoundTrip ==
  /\ (fpc = "read" /\ fw = "Variable") =>
       (ReadBack /\ Len(fwr.bytes) \in {1, 3, 5, 9})
  /\ (fpc = "split") => (fsl.ok /\ fsl.v = fv /\ fsl.rest = ftail)

\* the field does not end where the in-memory buffer ends
PastEnd == fback = "File" \/ ftail # <<>>

\* the variable-width round trip wherever the read does not end at the end
\* of an in-memory buffer
VarintRoundTripPastEnd ==
  /\ (fpc = "read" /\ fw = "Variable" /\ PastEnd) =>
       (ReadBack /\ Len(fwr.bytes) \in {1, 3, 5, 9})
  /\ (fpc = "split") => (fsl.ok /\ fsl.v = fv /\ fsl.rest = ftail)

\* the fewest bytes the scheme allows for v
MinimalLen(v) ==
  IF Lt64(v, U64(253)) THEN 1
  ELSE IF Le64(v, U16_MAX) THEN 3
  ELSE IF Le64(v, U32_MAX) THEN 5
  ELSE 9

VarintWritten == fpc = "pushed" \/ (fpc = "written" /\ fw = "Variable")

\* C15: write_unsigned and the slice-based write_u64 emit 1 byte below 253,
\* 3 bytes up to 65535, 5 bytes up to 2^32 - 1 and 9 bytes only from 2^32
C15_MinimalBytes == VarintWritten => Len(fwr.bytes) = MinimalLen(fv)

\* the byte counts of all values but the largest of 16 and of 32 bits
MinimalBytesOffMax ==
  (VarintWritten /\ fv \notin {U16_MAX, U32_MAX}) => Len(fwr.bytes) = MinimalLen(fv)

\* v fits the width w
Fits(w, v) ==
  CASE w = "IsOne" -> v = U64(1)
    [] w = "U8" -> Le64(v, U8_MAX)
    [] w = "U16" -> Le64(v, U16_MAX)
    [] w = "U32" -> Le64(v, U32_MAX)
    [] w \in {"U64", "Variable"} -> TRUE

\* write_bitwidth fails, writing nothing, exactly when v does not fit
WriteChecked ==
  (fpc \in {"written", "read"}) =>
    /\ fwr.ok <=> Fits(fw, fv)
    /\ ~fwr.ok => fwr.bytes = <<>>
    /\ (fwr.ok /\ fw = "IsOne") => fwr.bytes = <<>>

\* C16: write_bitwidth(w, v) returns OutOfBounds and writes no byte
\* exactly when v does not fit w; otherwise it writes the field and a
\* following read_bitwidth(w) returns v
C16_WriteBitwidth ==
  /\ WriteChecked
  /\ (fpc = "read") => (frd.ok /\ frd.v = fv)

\* the same, wherever the field read takes no byte or does not end at the
\* end of an in-memory buffer
WriteBitwidthPastEnd ==
  /\ WriteChecked
  /\ (fpc = "read" /\ (PastEnd \/ fw = "IsOne")) => ReadBack

\* the bytes [o, o+n) of the backing bytes
Backing(o, n) == SubSeq(clone[1].storage.buf, o + 1, o + n)

\* read_exact(buf) called at offset call.from with n = len(buf) did what
\* the contract says
ReadExactDone(call) ==
  IF call.from + call.arg[1] <= End
  THEN /\ call.ok
       /\ call.v = Backing(call.from, call.arg[1])
       /\ call.tell = call.from + call.arg[1]
  ELSE /\ ~call.ok
       /\ call.err = "Io"
       /\ call.tell = call.from

\* C17: read_exact on either backend at offset o with n = len(buf) fills
\* buf with the bytes [o, o+n) and moves tell() to o + n when o + n is at
\* most the backing length, the length itself included; otherwise it
\* returns an Io error and tell() is still o
C17_ReadExact ==
  \A c \in 1..2 : got[c].op = "read_exact" => ReadExactDone(got[c])

\* the same on the file backend, and in memory wherever the read does not
\* end at the end of the buffer
ReadExactOffEnd ==
  \A c \in 1..2 :
    (/\ got[c].op = "read_exact"
     /\ \/ clone[c].storage.backend = "File"
        \/ got[c].from + got[c].arg[1] # End)
    => ReadExactDone(got[c])

\* a read_exact on a file that ended exactly at its end
ReadExactAtEndOfFile ==
  \E c \in 1..2 :
    /\ got[c].op = "read_exact" /\ clone[c].storage.backend = "File"
    /\ got[c].from + got[c].arg[1] = End /\ got[c].ok

\* seek(offset) did what the contract says
SeekDone(call) ==
  IF call.arg[1] <= End
  THEN call.ok /\ call.tell = call.arg[1]
  ELSE ~call.ok /\ call.tell = call.from

\* C18: on both backends seek(offset) succeeds and makes tell() return
\* offset exactly when offset is at most the backing length, the end
\* itself included; beyond it seek fails and tell() is unchanged
C18_SeekBound ==
  \A c \in 1..2 : got[c].op = "seek" => SeekDone(got[c])

\* the same on the file backend, and in memory for every offset but the
\* end itself
SeekBoundOffEnd ==
  \A c \in 1..2 :
    (/\ got[c].op = "seek"
     /\ clone[c].storage.backend = "File" \/ got[c].arg[1] # End)
    => SeekDone(got[c])

\* a seek to exactly the end of a file, and a seek past it
SeekToEndOfFile ==
  \E c \in 1..2 :
    /\ got[c].op = "seek" /\ clone[c].storage.backend = "File"
    /\ got[c].arg[1] = End /\ got[c].ok

\* the private state of a handle: its offset, row counter and decode
\* state, without the position of the descriptor it shares
Private(h) == [h EXCEPT !.storage.fd = 0]

\* each clone is where its copy that ran alone is, and its latest call
\* returned what the copy's call returned
AsAlone ==
  \A c \in 1..2 :
    /\ Private(clone[c]) = Private(solo[c])
    /\ got[c] = sgot[c]
    /\ got[c].op = "read_exact_at" => got[c].tell = got[c].from

\* a step of one clone leaves the private state of the other as it was
OtherUntouched ==
  \A c \in 1..2 :
    who' = Append(who, c) => Private(clone'[3 - c]) = Private(clone[3 - c])

\* C19: under every interleaving of the read_exact, seek, next and
\* read_exact_at steps of two clones of one storage or column handle each
\* clone gets the results and the tell() values it gets running alone, no
\* step of one clone changes the other's offset, row counter or decode
\* state, and read_exact_at changes no offset
C19_CloneIsolation == []AsAlone /\ [][OtherUntouched]_vars

\* two clones of a column on a file, interleaved: the first yields a
\* chunk, the second reads a byte, the first yields its next chunk
C19_Witness ==
  /\ spc = "probed" /\ clone[1].storage.backend = "File"
  /\ who = <<1, 2, 1>>
  /\ got[1].op = "next" /\ got[1].ok /\ got[1].v.kind = "Chunk"
  /\ got[1].v.chunk.start # U64(0)
  /\ got[2].op = "read_exact" /\ got[2].ok

\* the first 8 bytes of the backing bytes, big-endian
Found == SubSeq(clone[1].storage.buf, 1, 8)

\* the codecs whose magic is m
Named(m) == {c \in Codecs : CodecMagic(c) = m}

\* the open of a codec on bytes that start with another magic
Mismatched ==
  spc = "probed" /\ opened.probe[1] # "Raw" /\ Found # CodecMagic(opened.probe)

\* open_storage was called
Dispatched == spc = "probed" /\ opened.probe[1] = "Raw"

UnknownMagic == Dispatched /\ Named(Found) = {} /\ opened.res.err = "BadMagic"
OtherMagic ==
  Mismatched /\ Named(Found) # {} /\ opened.res.err = "BadMagic"

\* the codec of the values of a kind
KindCodec == CASE kind = "bool" -> "Bool" [] kind = "u64" -> "U64" [] kind = "bytes" -> "Bytes"

\* the format write_u64 / write_bytes selects for the input
Selected == IF kind = "u64" THEN SelectU64(input) ELSE SelectBytes(input)

\* open_storage was called on what write_* made of a non-empty input
OpenTried == input # <<>> /\ pc \notin {"start", "written"}

NoAbort ==
  /\ openErr # "Abort"
  /\ \A i \in 1..Len(scan) : scan[i].kind # "Abort"

\* C22: for every byte sequence handed to decode or to an open and then
\* iterated to the end or to the first error, every open and every next()
\* returns a value or a typed StorageError and none aborts
C22_NoAbort == NoAbort

\* the same for the written columns cut short anywhere
NoAbortCutShort == (input # <<>>) => NoAbort

\* the scan yields num_chunks() chunks, then None, and a next() after that
\* returns None again; the row counter stays within num_rows()
Finite ==
  /\ \A i \in 1..Len(scan) :
       scan[i].kind = (IF i <= ToNat(num_chunks(col)) THEN "Chunk" ELSE "None")
  /\ Le64(it.current_row, num_rows(col))
  /\ ~Running(scan) => ColumnNext(it).kind = "None"

\* C23: iterating a handle freshly opened on a column written by
\* write_bools, write_u64 or write_bytes yields exactly num_chunks() chunks
\* without error, then None, and None again on every later next(); the row
\* counter never exceeds num_rows()
C23_FiniteIteration == (input # <<>> /\ pc = "open") => Finite

\* the same on the file backend
FiniteOnFile == (input # <<>> /\ OnFile) => Finite

\* an encode that returned Ok on a non-empty run list wrote a column that
\* opens with that many chunks and rows
OkIsComplete ==
  (epc = "reopened" /\ eout.res = "Ok" /\ eruns # <<>> /\ ecodec \notin Writers) =>
    /\ eop.ok
    /\ num_chunks(eop.h) = U64(Len(eruns))
    /\ num_rows(eop.h) = U64(SumRuns(eruns))

\* C24: an encode, and a write_* entry point, either writes one complete
\* column and returns Ok or returns an error having written no byte, so
\* that an OutOfBounds result leaves the sink as it was
C24_AllOrNothing ==
  /\ (epc # "start" /\ eout.res # "Ok") => eout.bytes = <<>>
  /\ OkIsComplete

\* the entry points return Ok
WritersOk == (epc # "start" /\ ecodec \in Writers) => eout.res = "Ok"

\* an encode returned OutOfBounds
EncodeFailed == epc # "start" /\ eout.res = "OutOfBounds"

\* the whole column that the sink is the beginning of, the handle a file
\* of the whole column opens as, and that handle after i calls of next()
Whole == WriteColumn(kind, input).bytes
WholeOpen == open_storage(Storage("File", Whole)).h
RECURSIVE After(_, _)
After(h, i) == IF i = 0 THEN h ELSE ColumnNext(After(h, i - 1)).h

\* open was called on a written column cut short
CutShort == input # <<>> /\ Len(sink) < Len(Whole) /\ pc # "written"

\* the i-th next() yields the i-th chunk of the whole column when its run
\* record lies within the sink, and Io when it does not
ChunkOrIo(i) ==
  IF ColumnTell(After(WholeOpen, i)) <= Len(sink)
  THEN scan[i] = Result(ColumnNext(After(WholeOpen, i - 1)))
  ELSE scan[i].kind = "Err" /\ scan[i].err = "Io"

\* open fails with Io inside the header; past it open succeeds at the
\* first run record and the iteration is the whole column's up to the
\* first incomplete record
HeaderOnly ==
  IF Len(sink) < ColumnTell(WholeOpen)
  THEN pc = "failed" /\ openErr = "Io"
  ELSE /\ pc = "open"
       /\ ColumnTell(col) = ColumnTell(WholeOpen)
       /\ \A i \in 1..Len(scan) : ChunkOrIo(i)

\* C25: on a buffer that holds a complete header and a truncated body open
\* succeeds with tell() at the first run record, and the iteration yields
\* every intact chunk and returns Io at the first next() whose record is
\* incomplete; on a buffer truncated inside the header open returns Io
C25_HeaderOnlyOpen == CutShort => HeaderOnly

\* the same when the buffer is a file
HeaderOnlyOnFile ==
  (CutShort /\ (pc = "open" => col.storage.backend = "File")
            /\ (pc = "failed" => Len(sink) < ColumnTell(WholeOpen)))
  => HeaderOnly

\* a file cut inside its second run record: the first chunk, then Io
CutInSecondRecord ==
  /\ CutShort /\ pc = "open" /\ col.storage.backend = "File"
  /\ Len(scan) = 2 /\ scan[1].kind = "Chunk" /\ scan[2].kind = "Err"

\* C26: write_bools, write_u64 and write_bytes called with an empty slice,
\* and the encode of every codec called with an empty run list, return Ok
\* and write no byte, not even a magic number
C26_EmptyWritesNothing ==
  (epc # "start" /\ eruns = <<>>) => (eout.res = "Ok" /\ eout.bytes = <<>>)

\* write_bools was called with an empty slice
C26_Witness ==
  /\ epc = "encoded" /\ eruns = <<>> /\ ecodec[1] = "write_bools"
  /\ eout.res = "Ok" /\ Len(eout.bytes) = 0

\* the handle with the same fields over the other backend
OnBackend(h, backend) == [h EXCEPT !.storage.backend = backend]

\* open_storage returns the same on both backends
SameOpen ==
  LET Same(m, f) ==
        /\ m.ok = f.ok /\ m.err = f.err /\ m.magic = f.magic
        /\ m.ok => OnBackend(m.h, "File") = f.h
  IN Same(open_storage(Storage("Bytes", sink)), open_storage(Storage("File", sink)))

\* next() returns the same chunk or error and leaves the same tell() on
\* both backends, from the state of handle h
SameNext(h) ==
  LET Same(m, f) == Result(m) = Result(f) /\ ColumnTell(m.h) = ColumnTell(f.h)
  IN Same(ColumnNext(OnBackend(h, "Bytes")), ColumnNext(OnBackend(h, "File")))

\* seek to the k-th recorded token returns the same on both backends
SameSeek(h, k) ==
  LET Same(m, f) == m.ok = f.ok /\ OnBackend(m.h, "File") = f.h
  IN Same(ColumnSeek(OnBackend(h, "Bytes"), tokens[k].offset,
                     tokens[k].row_number, tokens[k].value),
          ColumnSeek(OnBackend(h, "File"), tokens[k].offset,
                     tokens[k].row_number, tokens[k].value))

\* C27: for the same column bytes a handle over the in-memory buffer and
\* a handle over a file return the same results and the same tell()
\* offsets for open, next and seek, from every state the two can be in,
\* the reads that end at the last byte of the column included
C27_BackendEquivalence ==
  /\ pc = "written" => SameOpen
  /\ pc = "open" =>
       /\ SameNext(it) /\ SameNext(cur)
       /\ \A k \in 1..Len(tokens) : SameSeek(cur, k)

\* the part of it that holds: open, and every next() and seek that does
\* not reach the end of the column bytes
EquivalentOffEnd ==
  /\ pc = "written" => SameOpen
  /\ pc = "open" =>
       /\ \A h \in {it, cur} :
            ColumnTell(ColumnNext(OnBackend(h, "File")).h) # Len(sink) => SameNext(h)
       /\ \A k \in 1..Len(tokens) : tokens[k].offset # Len(sink) => SameSeek(cur, k)


\* ------------------------------------------------- soundness of selection
\* the write of a non-empty slice has returned
WroteSome == pc # "start" /\ input # <<>>

SeekPastFailed == seekK' = 0 /\ since' # <<>> /\ since'[1].kind = "SeekErr"

\* C29: a column seek that returns an error because its offset is beyond
\* the backing length changes nothing: the row counter, the decode state
\* and the storage offset of the handle are as before the call, and the
\* next call of next() returns what it would have returned without it.
C29_FailedSeekChangesNothing ==
  [][SeekPastFailed => (cur' = cur /\ Result(ColumnNext(cur')) = Result(ColumnNext(cur)))]_vars

\* a failed seek beyond the end leaves the storage and its offset as they
\* were, and with them every field but the row counter and the polarity
FailedSeekKeepsOffset ==
  [][SeekPastFailed =>
       /\ cur'.storage = cur.storage
       /\ [cur' EXCEPT !.current_row = U64(0), !.last = FALSE]
            = [cur EXCEPT !.current_row = U64(0), !.last = FALSE]]_vars

\* a failed seek beyond the end has set the row counter of the handle
SeekPastLeftRow ==
  /\ pc = "open" /\ seekK = 0 /\ since # <<>> /\ since[1].kind = "SeekErr"
  /\ cur.current_row # U64(0) /\ ColumnTell(cur) = ColumnTell(col)

\* ------------------------------------------------- magic within 64 bits
\* the sum F + BYTES_GENERIC_MAGIC of a byte-string format fits a u64
SumFits(F) == ~Add64(F, BYTES_GENERIC_MAGIC).over

\* encode wrote F xor U64_GENERIC_MAGIC first, and open accepts it
XorWritten ==
  /\ Len(eout.bytes) >= 8
  /\ SubSeq(eout.bytes, 1, 8) = write_u64(Xor64(ecodec[2], U64_GENERIC_MAGIC))
  /\ epc = "reopened" => eop.err # "BadMagic"

\* C30: the magic numbers are computed within 64 bits: for each of the
\* four byte-string formats VVV, V10, FVV and F1V the sum
\* F + BYTES_GENERIC_MAGIC does not exceed 2^64 - 1, and for the integer
\* formats F xor U64_GENERIC_MAGIC is the value encode writes (whenever
\* it writes, that is for a non-empty input) and open compares against.
C30_MagicWithin64Bits ==
  epc # "start" =>
    /\ ecodec[1] = "Bytes" => SumFits(ecodec[2])
    /\ (ecodec[1] = "U64" /\ eruns # <<>>) => XorWritten

\* the sum fits for the formats with a fixed length (FVV, F1V), and the
\* integer half of the claim holds
MagicWithin64BitsFixedLength ==
  epc # "start" =>
    /\ (ecodec[1] = "Bytes" /\ ecodec[2] \in {FVV, F1V}) => SumFits(ecodec[2])
    /\ (ecodec[1] = "U64" /\ eruns # <<>>) => XorWritten

\* the sum exceeds 2^64 - 1 for both formats with a variable length
MagicOverflows ==
  epc # "start" =>
    ((ecodec[1] = "Bytes" /\ ecodec[2] \in {VVV, V10}) => ~SumFits(ecodec[2]))

\* a column of a format with a variable length was encoded and reopened
VariableLengthEncoded ==
  /\ epc = "reopened" /\ ecodec = <<"Bytes", VVV>> /\ eout.res = "Ok" /\ eruns # <<>>
====
